---- MODULE Spec2Model ----
(***************************************************************************)
(* Model of the gamepass proxy handlers (src/index.js and the two unnamed  *)
(* parts).  The repository holds several deployments ("variants") of the   *)
(* same small express server; each request is handled independently and    *)
(* suspends at every upstream call (await), so a handler is one action up  *)
(* to its first await and one action per upstream reply.                   *)
(*                                                                         *)
(*   variant "A"  src/index.js 1-213     check-ownership, list-gamepasses  *)
(*   variant "B"  src/index.js 215-341   created-gamepasses, owns          *)
(*   variant "C"  src/index.js 343-457   created-gamepasses, owns (dotenv) *)
(*   variant "D"  src/index.js 459-580   check-ownership, list-gamepasses  *)
(*   variant "E"  src/unnamed/part_001   check-ownership, list-gamepasses  *)
(*   variant "P"  src/unnamed/part_000   /proxy                            *)
(***************************************************************************)
EXTENDS Integers, Sequences, FiniteSets, TLC

VARIABLES
    variant,            \* which deployment of the server is running
    ROBLOX_API_KEY,     \* TRUE iff process.env.ROBLOX_API_KEY is a non-empty string
    pc,                 \* "idle" | "paging" | "await" | "done"
    req,                \* the request being handled: route and its parameters
    results,            \* created-gamepasses: accumulated items
    exclusiveStartId,   \* created-gamepasses: cursor sent with the next call
    pages,              \* created-gamepasses: loop counter
    calls,              \* upstream calls issued for the current request
    last,               \* the upstream reply received last for this request
    response            \* the HTTP response sent for this request

vars == <<variant, ROBLOX_API_KEY, pc, req, results, exclusiveStartId, pages,
          calls, last, response>>

(***************************************************************************)
(* Bounds of the model.                                                    *)
(***************************************************************************)
MaxIdLen == 2       \* identifiers are strings of at most this many characters
MaxResults == 2     \* upstream stops sending items once this many are accumulated
MaxObservedPages == 4   \* pages followed when the whole body of each reply is kept

(***************************************************************************)
(* JSON values as JavaScript sees them.  A value is a record of fixed      *)
(* shape: t is the type tag, n the number, s the string (a sequence of     *)
(* one-character strings), l the elements of a list, c the                 *)
(* nextExclusiveStartId property of an object ("" when it has none).       *)
(***************************************************************************)
JV(t, n, s, l, c) == [t |-> t, n |-> n, s |-> s, l |-> l, c |-> c]
Undef    == JV("undef", 0, <<>>, <<>>, <<>>)
Null     == JV("null", 0, <<>>, <<>>, <<>>)
Num(k)   == JV("num", k, <<>>, <<>>, <<>>)
Str(x)   == JV("str", 0, x, <<>>, <<>>)
List(xs) == JV("list", 0, <<>>, xs, <<>>)
Obj(c)   == JV("obj", 0, <<>>, <<>>, c)

\* ToBoolean
Truthy(v) ==
    CASE v.t = "undef" -> FALSE
      [] v.t = "null"  -> FALSE
      [] v.t = "num"   -> v.n # 0
      [] v.t = "str"   -> v.s # <<>>
      [] OTHER         -> TRUE

\* a || b
Or(a, b) == IF Truthy(a) THEN a ELSE b

\* a && a.nextExclusiveStartId
AndNextExclusiveStartId(a) ==
    IF ~Truthy(a) THEN a
    ELSE IF a.t = "obj" /\ a.c # <<>> THEN Str(a.c) ELSE Undef

IsArray(v) == v.t = "list"

\* ...v inside a call: the elements of a list, the characters of a string;
\* any other value is not iterable and the spread throws a TypeError.
Iterable(v) == v.t \in {"list", "str"}
Spread(v) == IF v.t = "list" THEN v.l ELSE v.s

(***************************************************************************)
(* An upstream body: v is the top-level value, f its properties when it is *)
(* a plain object.  Reading a property of null throws; of a string, number *)
(* or list it gives undefined.                                             *)
(***************************************************************************)
Fields == {"data", "gamePasses", "items", "nextExclusiveStartId", "nextCursor",
           "meta", "totalCount", "total", "count"}
NoFields == [k \in Fields |-> Undef]
Body(v, f) == [v |-> v, f |-> f]
PropThrows(body) == body.v.t \in {"null", "undef"}
Prop(body, k) == IF body.v.t = "obj" THEN body.f[k] ELSE Undef


(***************************************************************************)
(* Request parameters.  A parameter is undefined (absent from the query)   *)
(* or a string; path parameters are always non-empty strings.              *)
(***************************************************************************)
Chars == {"7", ".", "a"}
Digits == {"0", "1", "2", "3", "4", "5", "6", "7", "8", "9"}
Strings(n) == UNION {[1..k -> Chars] : k \in 0..n}
QueryParams == {Undef} \cup {Str(x) : x \in Strings(MaxIdLen)}
PathParams == {Str(x) : x \in Strings(MaxIdLen) \ {<<>>}}

\* Mutant: the pattern without its anchors, /\d+/.
IsDigitsUnanchored(p) ==
    /\ p.t = "str"
    /\ \E i \in 1..Len(p.s) : p.s[i] \in Digits

\* /^\d+$/.test(p)
IsDigits(p) ==
    /\ p.t = "str"
    /\ p.s # <<>>
    /\ \A i \in 1..Len(p.s) : p.s[i] \in Digits

NoReq == [route |-> "none", userId |-> Undef, gamePassId |-> Undef,
          universeId |-> Undef, url |-> Undef]

(***************************************************************************)
(* Upstream replies.  kind "ok": a 2xx response carrying body; "http": a   *)
(* response with a non-2xx status and a body (data); "net": no response at *)
(* all (DNS, connect, timeout), only an error message.                     *)
(***************************************************************************)
ErrStatuses == {403, 404, 503}
ErrMessage == Str(<<"E">>)
NullBody == Body(Null, NoFields)
Reply(kind, status, body, data) ==
    [kind |-> kind, status |-> status, body |-> body, data |-> data]
ErrData == {Str(<<>>), Obj(<<>>)}
FailReplies ==
    {Reply("http", st, NullBody, d) : st \in ErrStatuses, d \in ErrData}
    \cup {Reply("net", 0, NullBody, Undef)}

NoLast == [kind |-> "none", status |-> 0, cursor |-> FALSE, data |-> Undef,
           body |-> NullBody]

(***************************************************************************)
(* The HTTP response: status, the envelope flag it carries ("ok",          *)
(* "success" or none) with its value, and the payload fields.              *)
(***************************************************************************)
NoResponse ==
    [sent |-> FALSE, status |-> 0, flag |-> "none", val |-> FALSE,
     owns |-> "absent", hasResults |-> FALSE, results |-> <<>>,
     count |-> Undef, error |-> Undef, hasRaw |-> FALSE, raw |-> NullBody,
     guide |-> FALSE, isOwned |-> "absent", robloxStatusCode |-> 0,
     robloxError |-> Undef]
Sent(status, flag, val) ==
    [NoResponse EXCEPT !.sent = TRUE, !.status = status, !.flag = flag, !.val = val]

\* Mutant: the catch block ignores the upstream status.
CatchStatusAlways500(reply) == 500

\* axios: err?.response?.status || 500 and err?.response?.data || err.message
CatchStatus(reply) == IF reply.kind = "http" /\ reply.status # 0 THEN reply.status ELSE 500
CatchError(reply) == IF reply.kind = "http" THEN Or(reply.data, ErrMessage) ELSE ErrMessage
CatchResponse(reply) ==
    [Sent(CatchStatus(reply), "ok", FALSE) EXCEPT !.error = CatchError(reply)]

(***************************************************************************)
(* GET /api/created-gamepasses/:userId (variants B and C)                  *)
(***************************************************************************)
safetyPages == 50

\* The fields a page body can hold.  A string or number stands for a field
\* that is present but is not a list; Obj for one that is a plain object.
ItemA == "a"
ItemB == "b"
ItemShapes ==
    {<<Undef, Undef, Undef>>,
     <<List(<<ItemA, ItemB>>), Undef, Undef>>,
     <<List(<<ItemA, ItemB>>), List(<<ItemB>>), List(<<ItemA>>)>>,
     <<List(<<>>), List(<<ItemB>>), Undef>>,
     <<Obj(<<>>), List(<<ItemB>>), List(<<ItemA>>)>>,
     <<Undef, Num(5), Undef>>,
     <<Undef, Undef, List(<<ItemA>>)>>,
     <<Obj(<<>>), Undef, Str(<<ItemB>>)>>}
NextExclusiveStartIdValues == {Undef, Str(<<>>), Str(<<"x">>)}
NextCursorValues == {Undef, Str(<<"y">>)}
MetaValues == {Undef, Obj(<<"z">>)}

PageObject(d, g, i, n, c, m) ==
    Body(Obj(<<>>),
         [NoFields EXCEPT !["data"] = d, !["gamePasses"] = g, !["items"] = i,
                          !["nextExclusiveStartId"] = n, !["nextCursor"] = c,
                          !["meta"] = m])
PageBodies ==
    {PageObject(sh[1], sh[2], sh[3], n, c, m) :
        sh \in ItemShapes, n \in NextExclusiveStartIdValues,
        c \in NextCursorValues, m \in MetaValues}
    \cup {Body(List(<<>>), NoFields), Body(List(<<ItemB, ItemA>>), NoFields),
          Body(Null, NoFields), Body(Str(<<>>), NoFields), Body(Num(7), NoFields)}

Threw == [threw |-> TRUE, items |-> <<>>]
Got(xs) == [threw |-> FALSE, items |-> xs]
PushSpread(v) == IF Iterable(v) THEN Got(Spread(v)) ELSE Threw

\* index.js 266-277
ExtractItemsB(body) ==
    IF PropThrows(body) THEN Threw
    ELSE IF IsArray(Prop(body, "data")) THEN Got(Prop(body, "data").l)
    ELSE IF IsArray(body.v) THEN Got(body.v.l)
    ELSE IF Truthy(Prop(body, "gamePasses")) THEN PushSpread(Prop(body, "gamePasses"))
    ELSE IF Truthy(Prop(body, "items")) THEN PushSpread(Prop(body, "items"))
    ELSE Got(<<>>)

\* index.js 398-400
ExtractItemsC(body) ==
    IF PropThrows(body) THEN Threw
    ELSE IF IsArray(Prop(body, "data")) THEN Got(Prop(body, "data").l)
    ELSE IF IsArray(Prop(body, "gamePasses")) THEN Got(Prop(body, "gamePasses").l)
    ELSE IF IsArray(Prop(body, "items")) THEN Got(Prop(body, "items").l)
    ELSE Got(<<>>)

ExtractItems(v, body) == IF v = "B" THEN ExtractItemsB(body) ELSE ExtractItemsC(body)

\* Mutant: nextCursor is preferred to nextExclusiveStartId.
NextIdCursorFirst(v, body) ==
    LET n == Or(Or(Prop(body, "nextCursor"), Prop(body, "nextExclusiveStartId")),
                AndNextExclusiveStartId(Prop(body, "meta")))
    IN IF v = "B" THEN Or(n, Null) ELSE n

\* index.js 280 and 402-405 (the body is an object or a primitive here)
NextId(v, body) ==
    LET n == Or(Or(Prop(body, "nextExclusiveStartId"), Prop(body, "nextCursor")),
                AndNextExclusiveStartId(Prop(body, "meta")))
    IN IF v = "B" THEN Or(n, Null) ELSE n

\* Mutant: the loop test admits one page too many.
LoopContinuesOffByOne(p) == p <= safetyPages

\* while (pages < safetyPages)
LoopContinues(p) == p < safetyPages

CreatedResponse(rs) ==
    [Sent(200, "ok", TRUE) EXCEPT !.hasResults = TRUE, !.results = rs,
                                  !.count = Num(Len(rs))]

InvalidParamResponse == [Sent(400, "none", FALSE) EXCEPT !.error = Str(<<"n">>)]

\* The request arrives: validation, then the first upstream call.
CreatedGamepasses ==
    /\ pc = "idle"
    /\ variant \in {"B", "C"}
    /\ \E userId \in PathParams :
        /\ req' = [NoReq EXCEPT !.route = "created-gamepasses", !.userId = userId]
        /\ results' = <<>>
        /\ exclusiveStartId' = Str(<<>>)
        /\ pages' = 0
        /\ last' = NoLast
        /\ IF ~IsDigits(userId)
           THEN /\ response' = InvalidParamResponse
                /\ pc' = "done"
                /\ calls' = 0
           ELSE IF LoopContinues(0)
           THEN /\ response' = NoResponse
                /\ pc' = "paging"
                /\ calls' = 1
           ELSE /\ response' = CreatedResponse(<<>>)
                /\ pc' = "done"
                /\ calls' = 0
    /\ UNCHANGED <<variant, ROBLOX_API_KEY>>

\* Whether the body of a page carries a next cursor (recorded in last).
CarriesCursor(v, body) == ~PropThrows(body) /\ Truthy(NextId(v, body))

\* index.js 261 and 390-392: the exclusiveStartId parameter of the URL of the
\* call made with cursor e (undefined when the parameter is left out).
StartIdParam(e) == IF Truthy(e) THEN e ELSE Undef

\* The upstream reply to the call in flight arrives: the rest of the loop
\* body, then either the next call, the response, or the catch block.
\* last keeps the body of the reply only when keep is set.
PageReply(keep) ==
    /\ pc = "paging"
    /\ \E reply \in {Reply("ok", 200, b, Undef) : b \in PageBodies} \cup FailReplies :
        IF reply.kind = "ok"
        THEN LET got == ExtractItems(variant, reply.body)
                 rs == results \o got.items
             IN /\ Len(rs) <= MaxResults
                /\ last' = [NoLast EXCEPT !.kind = "ok", !.status = 200,
                                          !.cursor = CarriesCursor(variant, reply.body),
                                          !.body = IF keep THEN reply.body ELSE NullBody]
                /\ IF got.threw
                   THEN /\ response' = CatchResponse(Reply("net", 0, NullBody, Undef))
                        /\ pc' = "done"
                        /\ UNCHANGED <<results, exclusiveStartId, pages, calls>>
                   ELSE LET nextId == NextId(variant, reply.body)
                        IN /\ results' = rs
                           /\ IF ~Truthy(nextId)
                              THEN /\ response' = CreatedResponse(rs)
                                   /\ pc' = "done"
                                   /\ UNCHANGED <<exclusiveStartId, pages, calls>>
                              ELSE /\ exclusiveStartId' = nextId
                                   /\ pages' = pages + 1
                                   /\ IF LoopContinues(pages + 1)
                                      THEN /\ calls' = calls + 1
                                           /\ pc' = "paging"
                                           /\ response' = NoResponse
                                      ELSE /\ calls' = calls
                                           /\ pc' = "done"
                                           /\ response' = CreatedResponse(rs)
        ELSE /\ last' = [NoLast EXCEPT !.kind = reply.kind, !.status = reply.status,
                                       !.data = reply.data]
             /\ response' = CatchResponse(reply)
             /\ pc' = "done"
             /\ UNCHANGED <<results, exclusiveStartId, pages, calls>>
    /\ UNCHANGED <<variant, ROBLOX_API_KEY, req>>

CreatedGamepassesReply == PageReply(FALSE)

\* The same step with the body of the reply kept in last, followed for the
\* first MaxObservedPages pages of a request.
CreatedGamepassesReplyObserved ==
    /\ pages < MaxObservedPages
    /\ PageReply(TRUE)

(***************************************************************************)
(* GET /api/owns/:userId/:gamePassId (variants B and C, same code)         *)
(***************************************************************************)
OwnsDataValues == {Undef, List(<<>>), List(<<ItemA>>), Obj(<<>>)}
TotalCountValues == {Undef, Num(0), Num(2)}
TotalValues == {Undef, Num(0), Num(1)}
CountValues == {Undef, Num(0), Num(1), Str(<<"0">>)}

OwnsObject(d, tc, t, c) ==
    Body(Obj(<<>>),
         [NoFields EXCEPT !["data"] = d, !["totalCount"] = tc, !["total"] = t,
                          !["count"] = c])
OwnsBodies ==
    {OwnsObject(d, tc, t, c) :
        d \in OwnsDataValues, tc \in TotalCountValues, t \in TotalValues,
        c \in CountValues}
    \cup {Body(Null, NoFields), Body(Str(<<>>), NoFields), Body(Num(7), NoFields),
          Body(List(<<ItemA>>), NoFields)}

\* ToNumber of a string of decimal digits
DigitVal(d) ==
    CASE d = "0" -> 0 [] d = "1" -> 1 [] d = "2" -> 2 [] d = "3" -> 3 [] d = "4" -> 4
      [] d = "5" -> 5 [] d = "6" -> 6 [] d = "7" -> 7 [] d = "8" -> 8 [] d = "9" -> 9
RECURSIVE DigitsToNum(_)
DigitsToNum(s) ==
    IF s = <<>> THEN 0
    ELSE 10 * DigitsToNum(SubSeq(s, 1, Len(s) - 1)) + DigitVal(s[Len(s)])

\* v > 0 (a string is converted to a number; NaN compares false)
GreaterThanZero(v) ==
    CASE v.t = "num" -> v.n > 0
      [] v.t = "str" -> (\A i \in 1..Len(v.s) : v.s[i] \in Digits) /\ DigitsToNum(v.s) > 0
      [] OTHER       -> FALSE

BoolText(b) == IF b THEN "true" ELSE "false"

\* body.totalCount || body.total || body.count
CountOf(body) == Or(Or(Prop(body, "totalCount"), Prop(body, "total")), Prop(body, "count"))

\* index.js 312-327 and 435-446: the interpretation of a 2xx body
OwnsResponse(body) ==
    IF Truthy(body.v) /\ IsArray(Prop(body, "data"))
    THEN [Sent(200, "ok", TRUE) EXCEPT
            !.owns = BoolText(Len(Prop(body, "data").l) > 0),
            !.hasRaw = TRUE, !.raw = body]
    ELSE IF Truthy(body.v) /\ Truthy(CountOf(body))
    THEN [Sent(200, "ok", TRUE) EXCEPT
            !.owns = BoolText(GreaterThanZero(CountOf(body))),
            !.count = CountOf(body), !.hasRaw = TRUE, !.raw = body]
    ELSE [Sent(200, "ok", FALSE) EXCEPT
            !.owns = "unknown", !.hasRaw = TRUE, !.raw = body]

\* Mutant: an upstream 404 is forwarded like any other failure.
OwnsCatchResponseForwards404(reply) == CatchResponse(reply)

\* index.js 329-336 and 447-453: the catch block
OwnsCatchResponse(reply) ==
    IF reply.kind = "http" /\ reply.status = 404
    THEN [Sent(200, "ok", TRUE) EXCEPT !.owns = "false"]
    ELSE CatchResponse(reply)

Owns ==
    /\ pc = "idle"
    /\ variant \in {"B", "C"}
    /\ \E userId \in PathParams, gamePassId \in PathParams :
        /\ req' = [NoReq EXCEPT !.route = "owns", !.userId = userId,
                                !.gamePassId = gamePassId]
        /\ IF ~IsDigits(userId) \/ ~IsDigits(gamePassId)
           THEN /\ response' = InvalidParamResponse
                /\ pc' = "done"
                /\ calls' = 0
           ELSE /\ response' = NoResponse
                /\ pc' = "await"
                /\ calls' = 1
    /\ last' = NoLast
    /\ UNCHANGED <<variant, ROBLOX_API_KEY, results, exclusiveStartId, pages>>

OwnsReply ==
    /\ pc = "await"
    /\ req.route = "owns"
    /\ \E reply \in {Reply("ok", 200, b, Undef) : b \in OwnsBodies} \cup FailReplies :
        /\ last' = [NoLast EXCEPT !.kind = reply.kind, !.status = reply.status,
                                  !.data = reply.data, !.body = reply.body]
        /\ response' = IF reply.kind = "ok" THEN OwnsResponse(reply.body)
                       ELSE OwnsCatchResponse(reply)
    /\ pc' = "done"
    /\ UNCHANGED <<variant, ROBLOX_API_KEY, req, results, exclusiveStartId, pages, calls>>

(***************************************************************************)
(* GET /api/v1/check-ownership (variants A, D and E)                       *)
(***************************************************************************)
\* Number(s) is a number: an optional sign, then decimal digits with at most
\* one point and at least one digit; the empty string converts to 0.
IsNumericString(s) ==
    LET unsigned == IF s # <<>> /\ s[1] \in {"-", "+"} THEN Tail(s) ELSE s
    IN \/ s = <<>>
       \/ /\ \A i \in 1..Len(unsigned) : unsigned[i] \in Digits \cup {"."}
          /\ Cardinality({i \in 1..Len(unsigned) : unsigned[i] = "."}) <= 1
          /\ \E i \in 1..Len(unsigned) : unsigned[i] \in Digits

\* isNaN(p)
IsNaN(p) == IF p.t = "str" THEN ~IsNumericString(p.s) ELSE TRUE

\* The validation each variant applies to a query identifier, in order:
\* "missing" (!p), "nan" (isNaN(p)), or "valid".
CheckParam(v, p) ==
    IF ~Truthy(p) THEN "missing"
    ELSE IF v = "A" /\ IsNaN(p) THEN "nan"
    ELSE "valid"

\* index.js 59-72, 474-479; part_001 21-26
CheckOwnershipValidation(v, userId, gamePassId) ==
    IF CheckParam(v, userId) = "missing" \/ CheckParam(v, gamePassId) = "missing"
    THEN "missing"
    ELSE IF CheckParam(v, userId) = "nan" \/ CheckParam(v, gamePassId) = "nan"
    THEN "nan"
    ELSE "valid"

BadRequestResponse == Sent(400, "success", FALSE)

\* The text of a 2xx is-owned reply
TextValues == {<<"t", "r", "u", "e">>, <<"T", "r", "u", "e">>,
               <<"f", "a", "l", "s", "e">>, <<>>}
ToLowerCase(s) == [i \in 1..Len(s) |-> IF s[i] = "T" THEN "t" ELSE s[i]]

\* fetch resolves for every status (response.ok is false outside 2xx, and
\* the reply still has a body) and rejects only when there is no response.
FetchFailReplies ==
    {Reply("http", st, NullBody, d) : st \in ErrStatuses, d \in ErrData}
    \cup {Reply("net", 0, NullBody, Undef)}

\* index.js 85-111, 487-512; part_001 34-59
CheckOwnershipResponse(reply) ==
    IF reply.kind = "http"
    THEN [Sent(reply.status, "success", FALSE) EXCEPT !.robloxStatusCode = reply.status]
    ELSE IF reply.kind = "ok"
    THEN [Sent(200, "success", TRUE) EXCEPT
            !.isOwned = BoolText(ToLowerCase(reply.data.s) = <<"t", "r", "u", "e">>)]
    ELSE [Sent(500, "success", FALSE) EXCEPT !.error = ErrMessage]

CheckOwnership ==
    /\ pc = "idle"
    /\ variant \in {"A", "D", "E"}
    /\ \E userId \in QueryParams, gamePassId \in QueryParams :
        /\ req' = [NoReq EXCEPT !.route = "check-ownership", !.userId = userId,
                                !.gamePassId = gamePassId]
        /\ IF CheckOwnershipValidation(variant, userId, gamePassId) # "valid"
           THEN /\ response' = BadRequestResponse
                /\ pc' = "done"
                /\ calls' = 0
           ELSE /\ response' = NoResponse
                /\ pc' = "await"
                /\ calls' = 1
    /\ last' = NoLast
    /\ UNCHANGED <<variant, ROBLOX_API_KEY, results, exclusiveStartId, pages>>

CheckOwnershipReply ==
    /\ pc = "await"
    /\ req.route = "check-ownership"
    /\ \E reply \in {Reply("ok", 200, NullBody, Str(t)) : t \in TextValues}
                    \cup FetchFailReplies :
        /\ last' = [NoLast EXCEPT !.kind = reply.kind, !.status = reply.status,
                                  !.data = reply.data]
        /\ response' = CheckOwnershipResponse(reply)
    /\ pc' = "done"
    /\ UNCHANGED <<variant, ROBLOX_API_KEY, req, results, exclusiveStartId, pages, calls>>

(***************************************************************************)
(* GET /api/v1/list-gamepasses (variants A, D and E)                       *)
(***************************************************************************)
\* index.js 119-141, 518-532; part_001 72-77: what the handler does before
\* any upstream call: "missing", "nan", "nokey" or "call".
ListGamepassesGate(v, key, universeId) ==
    IF CheckParam(v, universeId) # "valid" THEN CheckParam(v, universeId)
    ELSE IF v \in {"A", "D"} /\ ~key THEN "nokey"
    ELSE "call"

ConfigurationErrorResponse == [Sent(500, "success", FALSE) EXCEPT !.guide = TRUE]

\* A 2xx reply whose text is JSON (data "json") or is not (data "text"):
\* response.json() throws on the latter and the catch block answers.
ListReplies ==
    {Reply("ok", 200, NullBody, Str(<<"j">>)), Reply("ok", 200, NullBody, Str(<<>>))}
    \cup FetchFailReplies

\* index.js 160-186, 551-575; part_001 91-117
ListGamepassesResponse(reply) ==
    IF reply.kind = "http"
    THEN [Sent(reply.status, "success", FALSE) EXCEPT
            !.robloxStatusCode = reply.status, !.robloxError = reply.data]
    ELSE IF reply.kind = "ok" /\ reply.data.s # <<>>
    THEN Sent(200, "success", TRUE)
    ELSE [Sent(500, "success", FALSE) EXCEPT !.error = ErrMessage]

ListGamepasses ==
    /\ pc = "idle"
    /\ variant \in {"A", "D", "E"}
    /\ \E universeId \in QueryParams :
        LET gate == ListGamepassesGate(variant, ROBLOX_API_KEY, universeId)
        IN /\ req' = [NoReq EXCEPT !.route = "list-gamepasses",
                                   !.universeId = universeId]
           /\ IF gate \in {"missing", "nan"}
              THEN /\ response' = BadRequestResponse
                   /\ pc' = "done"
                   /\ calls' = 0
              ELSE IF gate = "nokey"
              THEN /\ response' = ConfigurationErrorResponse
                   /\ pc' = "done"
                   /\ calls' = 0
              ELSE /\ response' = NoResponse
                   /\ pc' = "await"
                   /\ calls' = 1
    /\ last' = NoLast
    /\ UNCHANGED <<variant, ROBLOX_API_KEY, results, exclusiveStartId, pages>>

ListGamepassesReply ==
    /\ pc = "await"
    /\ req.route = "list-gamepasses"
    /\ \E reply \in ListReplies :
        /\ last' = [NoLast EXCEPT !.kind = reply.kind, !.status = reply.status,
                                  !.data = reply.data]
        /\ response' = ListGamepassesResponse(reply)
    /\ pc' = "done"
    /\ UNCHANGED <<variant, ROBLOX_API_KEY, req, results, exclusiveStartId, pages, calls>>

(***************************************************************************)
(* GET /proxy (variant P)                                                  *)
(***************************************************************************)
\* part_000 14: the 400 answer carries an error text and no flag
MissingUrlResponse == [Sent(400, "none", FALSE) EXCEPT !.error = Str(<<"u">>)]

\* part_000 21-26: the upstream text is sent as it came, with status 200,
\* whatever the upstream status; a rejected fetch gives 500 without a flag.
ProxyResponse(reply) ==
    IF reply.kind = "net"
    THEN [Sent(500, "none", FALSE) EXCEPT !.error = Str(<<"f">>)]
    ELSE Sent(200, "none", FALSE)

Proxy ==
    /\ pc = "idle"
    /\ variant = "P"
    /\ \E targetUrl \in QueryParams :
        /\ req' = [NoReq EXCEPT !.route = "proxy", !.url = targetUrl]
        /\ IF ~Truthy(targetUrl)
           THEN /\ response' = MissingUrlResponse
                /\ pc' = "done"
                /\ calls' = 0
           ELSE /\ response' = NoResponse
                /\ pc' = "await"
                /\ calls' = 1
    /\ last' = NoLast
    /\ UNCHANGED <<variant, ROBLOX_API_KEY, results, exclusiveStartId, pages>>

ProxyReply ==
    /\ pc = "await"
    /\ req.route = "proxy"
    /\ \E reply \in ListReplies :
        /\ last' = [NoLast EXCEPT !.kind = reply.kind, !.status = reply.status,
                                  !.data = reply.data]
        /\ response' = ProxyResponse(reply)
    /\ pc' = "done"
    /\ UNCHANGED <<variant, ROBLOX_API_KEY, req, results, exclusiveStartId, pages, calls>>

(***************************************************************************)
(* The server                                                              *)
(***************************************************************************)
Variants == {"A", "B", "C", "D", "E", "P"}

Init ==
    /\ variant \in Variants
    /\ ROBLOX_API_KEY \in BOOLEAN
    /\ pc = "idle"
    /\ req = NoReq
    /\ results = <<>>
    /\ exclusiveStartId = Str(<<>>)
    /\ pages = 0
    /\ calls = 0
    /\ last = NoLast
    /\ response = NoResponse

\* The response is out; the server takes the next request.
NextRequest ==
    /\ pc = "done"
    /\ pc' = "idle"
    /\ req' = NoReq
    /\ results' = <<>>
    /\ exclusiveStartId' = Str(<<>>)
    /\ pages' = 0
    /\ calls' = 0
    /\ last' = NoLast
    /\ response' = NoResponse
    /\ UNCHANGED <<variant, ROBLOX_API_KEY>>

Next ==
    \/ CreatedGamepasses
    \/ CreatedGamepassesReply
    \/ Owns
    \/ OwnsReply
    \/ CheckOwnership
    \/ CheckOwnershipReply
    \/ ListGamepasses
    \/ ListGamepassesReply
    \/ Proxy
    \/ ProxyReply
    \/ NextRequest

Spec == Init /\ [][Next]_vars

\* The created-gamepasses handlers alone, each reply observed in full.
InitObserved == Init /\ variant \in {"B", "C"}

NextObserved ==
    \/ CreatedGamepasses
    \/ CreatedGamepassesReplyObserved
    \/ NextRequest

SpecObserved == InitObserved /\ [][NextObserved]_vars

(***************************************************************************)
(* Properties                                                              *)
(***************************************************************************)
\* The identifier is a non-empty string of decimal digits.
AllDecimalDigits(p) ==
    p.t = "str" /\ Len(p.s) > 0 /\ {p.s[i] : i \in DOMAIN p.s} \subseteq Digits

Created == req.route = "created-gamepasses"
OwnsRoute == req.route = "owns"

\* C1: one created-gamepasses request issues at most 50 upstream calls, and
\* every upstream reply either ends the request with a response or starts
\* exactly one further call while the page counter, bounded by 50, grows.
C1_AtMostFiftyCalls ==
    /\ [](Created => /\ calls <= 50
                      /\ (pc = "paging" => ~response.sent /\ calls = pages + 1 /\ pages < 50)
                      /\ (pc = "done" => response.sent))
    /\ [][(Created /\ pc = "paging") =>
            \/ pc' = "done" /\ response'.sent /\ calls' = calls
            \/ pc' = "paging" /\ calls' = calls + 1 /\ pages' = pages + 1]_vars

\* The upstream returned a cursor on every page and the cap ended the request.
C1_Witness ==
    Created /\ pc = "done" /\ calls = 50 /\ pages = 50 /\ last.cursor
    /\ response.sent /\ response.val = TRUE

\* C2 (as claimed): when every call succeeded and the last page carried no
\* cursor, the response is the success carrying the accumulated items, its
\* count their number, after exactly one call per page.
C2_AllPagesConcatenated ==
    (Created /\ pc = "done" /\ last.kind = "ok" /\ ~last.cursor) =>
        /\ response.status = 200 /\ response.val = TRUE
        /\ response.hasResults /\ response.results = results
        /\ response.count = Num(Len(response.results))
        /\ calls = pages + 1

\* C3: a failed upstream call on page k gives one failure response with the
\* upstream status (500 when there is none) and none of the accumulated
\* items, and k calls were made in all.
C3_FailureDiscardsPartial ==
    (Created /\ pc = "done" /\ last.kind \in {"http", "net"}) =>
        /\ response.sent /\ response.flag = "ok" /\ response.val = FALSE
        /\ response.status = (IF last.kind = "http" THEN last.status ELSE 500)
        /\ ~response.hasResults /\ response.results = <<>>
        /\ calls = pages + 1

\* Page 3 failed with an upstream status after two pages that delivered items.
C3_Witness ==
    Created /\ pc = "done" /\ last.kind = "http" /\ pages = 2 /\ calls = 3
    /\ results # <<>> /\ response.status = last.status

HasDataList(body) == IsArray(Prop(body, "data"))
CountFields == {"totalCount", "total", "count"}
PresentCounts(body) == {k \in CountFields : Prop(body, k).t # "undef"}

\* C4: the ownership check makes one upstream call; a 404 answers owns=false
\* as a success, a data list answers owns = (list non-empty), and a 2xx body
\* with neither a data list nor a count field answers "unknown" with the body.
C4_OwnsVerdict ==
    (OwnsRoute /\ pc = "done" /\ AllDecimalDigits(req.userId) /\ AllDecimalDigits(req.gamePassId)) =>
        /\ calls = 1
        /\ (last.kind = "http" /\ last.status = 404) =>
              response.status = 200 /\ response.val = TRUE /\ response.owns = "false"
        /\ (last.kind = "ok" /\ HasDataList(last.body)) =>
              /\ response.status = 200 /\ response.val = TRUE
              /\ response.owns = BoolText(Prop(last.body, "data").l # <<>>)
        /\ (last.kind = "ok" /\ ~HasDataList(last.body) /\ PresentCounts(last.body) = {}) =>
              /\ response.status = 200 /\ response.owns = "unknown"
              /\ response.hasRaw /\ response.raw = last.body

\* The upstream answered 404.
C4_Witness ==
    OwnsRoute /\ pc = "done" /\ calls = 1 /\ last.kind = "http" /\ last.status = 404
    /\ response.owns = "false"

\* C5: a request with a non-numeric path identifier is answered 400 and no
\* upstream call is ever issued for it.
C5_NonNumericRejected ==
    (\/ Created /\ ~AllDecimalDigits(req.userId)
     \/ OwnsRoute /\ (~AllDecimalDigits(req.userId) \/ ~AllDecimalDigits(req.gamePassId))) =>
        /\ pc = "done" /\ response.sent /\ response.status = 400
        /\ calls = 0 /\ last.kind = "none"

\* A digit followed by a letter is rejected.
C5_Witness ==
    OwnsRoute /\ AllDecimalDigits(req.userId) /\ req.gamePassId = Str(<<"7", "a">>)
    /\ response.status = 400 /\ calls = 0

\* C6 (as claimed): without an API key, every list-gamepasses request with a
\* valid universeId is answered 500 with guidance and no upstream call.
C6_NoKeyNoCall ==
    (req.route = "list-gamepasses" /\ ~ROBLOX_API_KEY /\ AllDecimalDigits(req.universeId)) =>
        /\ pc = "done" /\ response.status = 500 /\ response.guide
        /\ calls = 0

\* C7 (as claimed): on every route that takes identifiers, a request with an
\* identifier missing or not a string of decimal digits is answered 400 and
\* no upstream call is made for it.
C7_IdentifiersValidated ==
    (\/ req.route \in {"check-ownership", "owns"}
            /\ (~AllDecimalDigits(req.userId) \/ ~AllDecimalDigits(req.gamePassId))
     \/ req.route = "list-gamepasses" /\ ~AllDecimalDigits(req.universeId)
     \/ Created /\ ~AllDecimalDigits(req.userId)) =>
        /\ pc = "done" /\ response.status = 400 /\ calls = 0

\* C8 (as claimed): every response sent carries a success or ok flag.
C8_EnvelopeFlag ==
    response.sent => response.flag \in {"ok", "success"}

\* C9 (as claimed): a 2xx upstream body of any shape never gives an error
\* response: the aggregation ends or goes on as a success, and the ownership
\* check answers with a verdict.
C9_ShapesNeverFail ==
    /\ (Created /\ last.kind = "ok" /\ response.sent) =>
          response.status = 200 /\ response.val = TRUE
    /\ (OwnsRoute /\ last.kind = "ok" /\ response.sent) =>
          response.status = 200 /\ response.owns \in {"true", "false", "unknown"}

\* C10 (as claimed): for a 2xx body without a data list, a count field
\* greater than 0 gives owns=true, count fields equal to 0 give owns=false,
\* and the verdict is "unknown" only when none of the three is present.
C10_CountFallback ==
    (OwnsRoute /\ pc = "done" /\ last.kind = "ok" /\ ~HasDataList(last.body)) =>
        LET present == PresentCounts(last.body)
        IN /\ (\E k \in present : GreaterThanZero(Prop(last.body, k))) =>
                 response.owns = "true"
           /\ (present # {} /\ \A k \in present : Prop(last.body, k) = Num(0)) =>
                 response.owns = "false"
           /\ response.owns = "unknown" => present = {}

\* The value of the first shape of the body that matches, in the order
\* data (a list), the body itself (a list), gamePasses, items; Undef when no
\* shape matches.
FirstShape(body) ==
    IF body.v.t = "list" THEN body.v
    ELSE IF body.v.t # "obj" THEN Undef
    ELSE IF body.f["data"].t = "list" THEN body.f["data"]
    ELSE IF body.f["gamePasses"].t # "undef" THEN body.f["gamePasses"]
    ELSE body.f["items"]

\* C11 (as claimed): in every handler, the items a 2xx page appends are those
\* of the first matching shape among data, the body itself, gamePasses and
\* items (taken where that shape holds a list), and nothing when none matches.
C11_FirstShapeWins ==
    [][(Created /\ pc = "paging" /\ last'.kind = "ok") =>
          /\ FirstShape(last'.body).t = "list" =>
                results' = results \o FirstShape(last'.body).l
          /\ FirstShape(last'.body).t = "undef" => results' = results]_vars

\* The cursor of a page body: the first non-empty of nextExclusiveStartId,
\* nextCursor and meta.nextExclusiveStartId; Undef when there is none.
NonEmptyString(v) == v.t = "str" /\ Len(v.s) > 0
ClaimedCursor(body) ==
    IF body.v.t # "obj" THEN Undef
    ELSE IF NonEmptyString(body.f["nextExclusiveStartId"]) THEN body.f["nextExclusiveStartId"]
    ELSE IF NonEmptyString(body.f["nextCursor"]) THEN body.f["nextCursor"]
    ELSE IF body.f["meta"].t = "obj" /\ Len(body.f["meta"].c) > 0
         THEN Str(body.f["meta"].c)
    ELSE Undef

\* C12: the calls of one aggregation are sequential: one call is in flight at
\* a time, the first carries no exclusiveStartId, and each later call is
\* issued on receiving the previous reply and carries the cursor of that
\* reply's body.
C12_SequentialCursor ==
    /\ []((Created /\ pc = "paging") =>
            /\ calls = pages + 1
            /\ calls = 1 => last.kind = "none" /\ StartIdParam(exclusiveStartId) = Undef
            /\ calls > 1 => /\ last.kind = "ok"
                            /\ ClaimedCursor(last.body) # Undef
                            /\ StartIdParam(exclusiveStartId) = ClaimedCursor(last.body))
    /\ [][(req'.route = "created-gamepasses" /\ calls' # calls /\ calls' # 0) =>
            /\ calls' = calls + 1
            /\ \/ calls = 0 /\ pc = "idle"
               \/ /\ pc = "paging" /\ last'.kind = "ok"
                  /\ StartIdParam(exclusiveStartId') = ClaimedCursor(last'.body)]_vars

\* The third call carries nextCursor: the second reply had an empty
\* nextExclusiveStartId, a nextCursor and a meta cursor.
C12_Witness ==
    /\ Created /\ pc = "paging" /\ calls = 3
    /\ last.body.f["nextExclusiveStartId"] = Str(<<>>)
    /\ last.body.f["nextCursor"] = Str(<<"y">>)
    /\ last.body.f["meta"] = Obj(<<"z">>)
    /\ StartIdParam(exclusiveStartId) = Str(<<"y">>)

\* C13 (as claimed): in both ownership endpoints an upstream non-2xx status
\* other than 404 gives a failure response with that status which carries
\* the upstream body, and a failure without an upstream status gives 500.
C13_UpstreamErrorForwarded ==
    (req.route \in {"owns", "check-ownership"} /\ pc = "done") =>
        /\ (last.kind = "http" /\ last.status # 404) =>
              /\ response.status = last.status /\ response.val = FALSE
              /\ last.data # Str(<<>>) =>
                    last.data \in {response.error, response.robloxError}
        /\ last.kind = "net" => response.status = 500 /\ response.val = FALSE

====
